---- MODULE Spec2Model ----
(***************************************************************************)
(* AsciiMap: a bordered 2D character grid with place / move / delete /     *)
(* clear / placeMultiple / placeRandom, rendering to text, and writing to  *)
(* and reading from a file.                                                *)
(*                                                                         *)
(* A JavaScript string is modelled as the sequence of its UTF-16 code      *)
(* units, each unit being a one-character TLA+ string; a cell of the grid  *)
(* holds one unit.  A JavaScript number n is modelled as the record        *)
(* [isInteger, floor]: Integer(n) is the integer n, NonInteger(n) a number *)
(* strictly between n and n+1.  An error is the record [prefix, msg, line] *)
(* of the message's wrapping prefix, its fixed text and the line number it *)
(* reports (0 when it reports none); NoError stands for a normal return.   *)
(***************************************************************************)
EXTENDS Integers, Sequences, FiniteSets, TLC

VARIABLES
    drawableWidth,   \* this.drawableWidth
    drawableHeight,  \* this.drawableHeight
    width,           \* this.width
    height,          \* this.height
    map,             \* this.map, indexed map[row][col] from 0
    ctor,            \* history: the dimensions the instance was constructed with
    disk,            \* the file at filePath: [exists, data]
    returned,        \* what the last readFromFile returned: <<>> or <<instance>>
    last             \* the last call and how it ended: [op, args, err]

vars == <<drawableWidth, drawableHeight, width, height, map, ctor, disk, returned, last>>

(***************************************************************************)
(* Bounds and input sets                                                   *)
(***************************************************************************)
MaxPlacements == 2
MaxFileLines == 4

Integer(n) == [isInteger |-> TRUE, floor |-> n]
NonInteger(n) == [isInteger |-> FALSE, floor |-> n]

Str(units) == [type |-> "string", units |-> units]
NotAString == [type |-> "number", units |-> <<>>]

\* The characters a cell of the model can hold besides the border characters.
CellChars == {" ", "X", "\n"}

\* Arguments of new AsciiMap(w, h); the last three are rejected.
CtorInputs ==
    {<<Integer(1), Integer(1)>>, <<Integer(2), Integer(1)>>,
     <<Integer(1), Integer(2)>>, <<Integer(2), Integer(2)>>,
     <<Integer(0), Integer(1)>>, <<Integer(1), Integer(-1)>>,
     <<NonInteger(1), Integer(1)>>}

\* (x, y) arguments: every coordinate of the largest grid, and out-of-range
\* and non-integer ones.
CoordInputs ==
    {<<Integer(x), Integer(y)>> : x \in 0..1, y \in 0..1}
    \cup {<<Integer(-1), Integer(0)>>, <<Integer(0), Integer(-1)>>,
          <<Integer(2), Integer(0)>>, <<Integer(0), Integer(2)>>,
          <<NonInteger(0), Integer(0)>>, <<Integer(0), NonInteger(0)>>}

\* char arguments: single units, the empty string, two units, a non-string.
CharInputs ==
    {Str(<<c>>) : c \in CellChars}
    \cup {Str(<<>>), Str(<<"X", "X">>), NotAString}

\* { x, y, char } objects handed to placeMultiple; x = 1 is out of range on the
\* grids one column wide.
PlacementInputs ==
    {[x |-> Integer(0), y |-> Integer(0), char |-> Str(<<"X">>)],
     [x |-> Integer(0), y |-> Integer(0), char |-> Str(<<"\n">>)],
     [x |-> Integer(1), y |-> Integer(0), char |-> Str(<<"X">>)],
     [x |-> Integer(0), y |-> Integer(0), char |-> Str(<<"X", "X">>)]}

SeqsUpTo(S, n) == UNION {[1..k -> S] : k \in 0..n}

(***************************************************************************)
(* Errors                                                                  *)
(***************************************************************************)
NoError == [prefix |-> "", msg |-> "", line |-> 0]
Error(msg) == [prefix |-> "", msg |-> msg, line |-> 0]
LineError(msg, line) == [prefix |-> "", msg |-> msg, line |-> line]

ErrNotIntegers == "Drawable width and height must be integers."
ErrTooSmall == "Drawable width and height must be at least 1."
ErrChar == "Only single ASCII characters are allowed."
ErrCoords == "Coordinates out of bounds."
ErrStart == "Starting coordinates out of bounds."
ErrEnd == "Ending coordinates out of bounds."
ErrNoChar == "No character to move at starting coordinates."
ErrFewLines == "Map must have at least 3 lines (including borders)."
ErrNarrow == "Map must have at least 3 characters per line (including borders)."
ErrLength == "Line length does not match expected width."
ErrTopBottom == "Top and bottom borders must consist only of '-' characters."
ErrSides == "Line side borders must consist only of '|' characters."
ReadPrefix == "Failed to read from file: "
\* Errors of the fs module.
ENOENT == "ENOENT: no such file or directory"
EACCES == "EACCES: permission denied"
FsErrors == {ENOENT, EACCES}

(***************************************************************************)
(* constructor                                                             *)
(***************************************************************************)
NumberIsInteger(n) == n.isInteger

newMap(w, h) ==
    [row \in 0..(h - 1) |->
        [col \in 0..(w - 1) |->
            IF row = 0 \/ row = h - 1 THEN "-"
            ELSE IF col = 0 \/ col = w - 1 THEN "|"
            ELSE " "]]

constructor(dw, dh) ==
    IF ~NumberIsInteger(dw) \/ ~NumberIsInteger(dh)
    THEN [err |-> Error(ErrNotIntegers), inst |-> <<>>]
    ELSE IF dw.floor < 1 \/ dh.floor < 1
    THEN [err |-> Error(ErrTooSmall), inst |-> <<>>]
    ELSE [err |-> NoError,
          inst |-> <<[drawableWidth |-> dw.floor,
                      drawableHeight |-> dh.floor,
                      width |-> dw.floor + 2,
                      height |-> dh.floor + 2,
                      map |-> newMap(dw.floor + 2, dh.floor + 2)]>>]

(***************************************************************************)
(* place, delete, move, clear, placeMultiple                               *)
(***************************************************************************)
\* The coordinate test of place and of move (for its start and for its end).
outOfBounds(x, y, dw, dh) ==
    \/ ~NumberIsInteger(x) \/ ~NumberIsInteger(y)
    \/ x.floor < 0 \/ x.floor >= dw
    \/ y.floor < 0 \/ y.floor >= dh

\* setCell with the two indices exchanged: this.map[mapX][mapY] = char.
setCellTransposed(m, x, y, unit) == [m EXCEPT ![x + 1][y + 1] = unit]

\* setCell without the border adjustment: this.map[y][x] = char.
setCellNoOffset(m, x, y, unit) == [m EXCEPT ![y][x] = unit]

\* this.map[mapY][mapX] = char, with mapX = x + 1 and mapY = y + 1.
setCell(m, x, y, unit) == [m EXCEPT ![y + 1][x + 1] = unit]

place(m, dw, dh, x, y, char) ==
    IF char.type # "string" \/ Len(char.units) # 1
    THEN [map |-> m, err |-> Error(ErrChar)]
    ELSE IF outOfBounds(x, y, dw, dh)
    THEN [map |-> m, err |-> Error(ErrCoords)]
    ELSE [map |-> setCell(m, x.floor, y.floor, char.units[1]), err |-> NoError]

delete(m, dw, dh, x, y) == place(m, dw, dh, x, y, Str(<<" ">>))

\* moveCells without the write that blanks the start cell.
moveCellsKeepStart(m, startX, startY, endX, endY, charToMove) ==
    [m EXCEPT ![endY + 1][endX + 1] = charToMove]

\* moveCells with its two writes in the other order.
moveCellsEndFirst(m, startX, startY, endX, endY, charToMove) ==
    LET written == [m EXCEPT ![endY + 1][endX + 1] = charToMove]
    IN  [written EXCEPT ![startY + 1][startX + 1] = " "]

\* The two writes of move, in the order the code makes them.
moveCells(m, startX, startY, endX, endY, charToMove) ==
    LET cleared == [m EXCEPT ![startY + 1][startX + 1] = " "]
    IN  [cleared EXCEPT ![endY + 1][endX + 1] = charToMove]

\* move testing the end coordinates before the start coordinates.
moveEndCheckedFirst(m, dw, dh, startX, startY, endX, endY) ==
    IF outOfBounds(endX, endY, dw, dh)
    THEN [map |-> m, err |-> Error(ErrEnd)]
    ELSE IF outOfBounds(startX, startY, dw, dh)
    THEN [map |-> m, err |-> Error(ErrStart)]
    ELSE LET charToMove == m[startY.floor + 1][startX.floor + 1]
         IN  IF charToMove = " "
             THEN [map |-> m, err |-> Error(ErrNoChar)]
             ELSE [map |-> moveCells(m, startX.floor, startY.floor,
                                     endX.floor, endY.floor, charToMove),
                   err |-> NoError]

move(m, dw, dh, startX, startY, endX, endY) ==
    IF outOfBounds(startX, startY, dw, dh)
    THEN [map |-> m, err |-> Error(ErrStart)]
    ELSE IF outOfBounds(endX, endY, dw, dh)
    THEN [map |-> m, err |-> Error(ErrEnd)]
    ELSE LET charToMove == m[startY.floor + 1][startX.floor + 1]
         IN  IF charToMove = " "
             THEN [map |-> m, err |-> Error(ErrNoChar)]
             ELSE [map |-> moveCells(m, startX.floor, startY.floor,
                                     endX.floor, endY.floor, charToMove),
                   err |-> NoError]

\* clear with its loops starting at 0 and ending at the last row and column.
clearWholeGrid(m, w, h) ==
    [row \in DOMAIN m |-> [col \in DOMAIN m[row] |-> " "]]

clear(m, w, h) ==
    [row \in DOMAIN m |->
        [col \in DOMAIN m[row] |->
            IF row >= 1 /\ row < h - 1 /\ col >= 1 /\ col < w - 1
            THEN " "
            ELSE m[row][col]]]

\* placeMultiple catching each failure, going on with the next placement and
\* reporting the first failure at the end.
RECURSIVE placeMultipleSkipping(_, _, _, _)
placeMultipleSkipping(m, dw, dh, placements) ==
    IF placements = <<>>
    THEN [map |-> m, err |-> NoError]
    ELSE LET p == Head(placements)
             r == place(m, dw, dh, p.x, p.y, p.char)
             rest == placeMultipleSkipping(r.map, dw, dh, Tail(placements))
         IN  IF r.err # NoError
             THEN [map |-> rest.map, err |-> r.err]
             ELSE rest

\* forEach stops at the first place that throws; what was placed stays.
RECURSIVE placeMultiple(_, _, _, _)
placeMultiple(m, dw, dh, placements) ==
    IF placements = <<>>
    THEN [map |-> m, err |-> NoError]
    ELSE LET p == Head(placements)
             r == place(m, dw, dh, p.x, p.y, p.char)
         IN  IF r.err # NoError
             THEN r
             ELSE placeMultiple(r.map, dw, dh, Tail(placements))

(***************************************************************************)
(* toString, writeToFile, readFromFile                                     *)
(***************************************************************************)
\* row.join('')
rowString(row) == [i \in 1..Cardinality(DOMAIN row) |-> row[i - 1]]

RECURSIVE join(_, _)
join(strs, sep) ==
    IF strs = <<>> THEN <<>>
    ELSE IF Len(strs) = 1 THEN strs[1]
    ELSE strs[1] \o sep \o join(Tail(strs), sep)

toString(m) ==
    join([i \in 1..Cardinality(DOMAIN m) |-> rowString(m[i - 1])], <<"\n">>)

\* fs.writeFileSync either throws fsError or replaces the file's content;
\* writeToFile lets what it throws pass.
writeToFile(m, d, fsError) ==
    IF fsError # NoError
    THEN [err |-> fsError, disk |-> d]
    ELSE [err |-> NoError, disk |-> [exists |-> TRUE, data |-> toString(m)]]

\* White space of String.prototype.trim among the units of the model.
IsWhiteSpace(u) == u \in {" ", "\t", "\n", "\r"}

RECURSIVE trimStart(_)
trimStart(s) ==
    IF s # <<>> /\ IsWhiteSpace(Head(s)) THEN trimStart(Tail(s)) ELSE s

RECURSIVE trimEnd(_)
trimEnd(s) ==
    IF s # <<>> /\ IsWhiteSpace(s[Len(s)])
    THEN trimEnd(SubSeq(s, 1, Len(s) - 1))
    ELSE s

trim(s) == trimEnd(trimStart(s))

\* s.split(/\r?\n/), cur being the piece collected so far.
RECURSIVE splitFrom(_, _)
splitFrom(s, cur) ==
    IF s = <<>> THEN <<cur>>
    ELSE IF Len(s) >= 2 /\ s[1] = "\r" /\ s[2] = "\n"
    THEN <<cur>> \o splitFrom(SubSeq(s, 3, Len(s)), <<>>)
    ELSE IF s[1] = "\n"
    THEN <<cur>> \o splitFrom(Tail(s), <<>>)
    ELSE splitFrom(Tail(s), Append(cur, s[1]))

split(s) == splitFrom(s, <<>>)

\* '-'.repeat(width)
repeatDash(n) == [i \in 1..n |-> "-"]

\* The loop copying the file's interior into the new instance.
populate(inst, lines) ==
    [inst EXCEPT !.map =
        [row \in DOMAIN inst.map |->
            [col \in DOMAIN inst.map[row] |->
                IF /\ row >= 1 /\ row <= inst.drawableHeight
                   /\ col >= 1 /\ col <= inst.drawableWidth
                THEN lines[row + 1][col + 1]
                ELSE inst.map[row][col]]]]

\* The validation of readFromFile, later checks first: the borders before the
\* count and the lengths of the lines.
firstFailureBordersFirst(lines) ==
    LET h == Len(lines)
        w == Len(lines[1])
        badLen == {i \in 1..h : Len(lines[i]) # w}
        badSide == {i \in 2..(h - 1) :
                        \/ Len(lines[i]) = 0
                        \/ lines[i][1] # "|"
                        \/ lines[i][Len(lines[i])] # "|"}
    IN  IF lines[1] # repeatDash(w) \/ lines[h] # repeatDash(w)
        THEN Error(ErrTopBottom)
        ELSE IF badSide # {}
        THEN LineError(ErrSides, CHOOSE i \in badSide : \A j \in badSide : i <= j)
        ELSE IF h < 3 THEN Error(ErrFewLines)
        ELSE IF w < 3 THEN Error(ErrNarrow)
        ELSE IF badLen # {}
        THEN LineError(ErrLength, CHOOSE i \in badLen : \A j \in badLen : i <= j)
        ELSE NoError

\* The validation of readFromFile: the error of the first throw reached, or
\* NoError.  A message that names a line names the first line its loop meets.
firstFailure(lines) ==
    LET h == Len(lines)
    IN  IF h < 3 THEN Error(ErrFewLines)
        ELSE
        LET w == Len(lines[1])
            badLen == {i \in 1..h : Len(lines[i]) # w}
            badSide == {i \in 2..(h - 1) : lines[i][1] # "|" \/ lines[i][w] # "|"}
        IN  IF w < 3 THEN Error(ErrNarrow)
            ELSE IF badLen # {}
            THEN LineError(ErrLength, CHOOSE i \in badLen : \A j \in badLen : i <= j)
            ELSE IF lines[1] # repeatDash(w) \/ lines[h] # repeatDash(w)
            THEN Error(ErrTopBottom)
            ELSE IF badSide # {}
            THEN LineError(ErrSides, CHOOSE i \in badSide : \A j \in badSide : i <= j)
            ELSE NoError

\* The body of readFromFile's try block once the file's text is read.
parse(data) ==
    LET lines == split(trim(data))
        failure == firstFailure(lines)
    IN  IF failure # NoError
        THEN [err |-> failure, inst |-> <<>>]
        ELSE LET made == constructor(Integer(Len(lines[1]) - 2), Integer(Len(lines) - 2))
             IN  IF made.err # NoError
                 THEN [err |-> made.err, inst |-> <<>>]
                 ELSE [err |-> NoError,
                       inst |-> <<populate(made.inst[1], lines)>>]

\* catch (err) { throw new Error(`Failed to read from file: ${err.message}`) }
wrap(err) == [err EXCEPT !.prefix = ReadPrefix]

\* fs.readFileSync throws ENOENT when the file is missing, may throw fsError,
\* and otherwise returns the file's text.
readFromFile(d, fsError) ==
    LET body == IF ~d.exists THEN [err |-> Error(ENOENT), inst |-> <<>>]
                ELSE IF fsError # NoError THEN [err |-> fsError, inst |-> <<>>]
                ELSE parse(d.data)
    IN  IF body.err # NoError
        THEN [err |-> wrap(body.err), inst |-> <<>>]
        ELSE body

(***************************************************************************)
(* Initial states                                                          *)
(***************************************************************************)
NoFile == [exists |-> FALSE, data |-> <<>>]

Holds(inst) ==
    /\ drawableWidth = inst.drawableWidth
    /\ drawableHeight = inst.drawableHeight
    /\ width = inst.width
    /\ height = inst.height
    /\ map = inst.map
    /\ ctor = [drawableWidth |-> inst.drawableWidth,
               drawableHeight |-> inst.drawableHeight,
               width |-> inst.width,
               height |-> inst.height]

\* const map = new AsciiMap(w, h)
InitConstructed ==
    \E d \in CtorInputs :
        LET made == constructor(d[1], d[2])
        IN  /\ made.err = NoError
            /\ Holds(made.inst[1])
            /\ disk = NoFile
            /\ returned = <<>>
            /\ last = [op |-> "constructor", args |-> d, err |-> NoError]

\* Files a program may start from.
SeedFiles ==
    {<<"-", "-", "-", "\n", "|", "X", "|", "\n", "-", "-", "-">>,
     <<"-", "-", "-", "-", "\r", "\n", "|", " ", "-", "|", "\r", "\n",
       "-", "-", "-", "-", "\n">>}

\* const map = AsciiMap.readFromFile(path)
InitLoaded ==
    \E data \in SeedFiles :
        LET read == readFromFile([exists |-> TRUE, data |-> data], NoError)
        IN  /\ read.err = NoError
            /\ Holds(read.inst[1])
            /\ disk = [exists |-> TRUE, data |-> data]
            /\ returned = read.inst
            /\ last = [op |-> "readFromFile", args |-> <<>>, err |-> NoError]

Init == InitConstructed \/ InitLoaded

(***************************************************************************)
(* Calls on the instance                                                   *)
(***************************************************************************)
Frame == UNCHANGED <<drawableWidth, drawableHeight, width, height, ctor, disk, returned>>

Place(x, y, char) ==
    LET r == place(map, drawableWidth, drawableHeight, x, y, char)
    IN  /\ map' = r.map
        /\ last' = [op |-> "place", args |-> <<x, y, char>>, err |-> r.err]
        /\ Frame

Delete(x, y) ==
    LET r == delete(map, drawableWidth, drawableHeight, x, y)
    IN  /\ map' = r.map
        /\ last' = [op |-> "delete", args |-> <<x, y>>, err |-> r.err]
        /\ Frame

Move(startX, startY, endX, endY) ==
    LET r == move(map, drawableWidth, drawableHeight, startX, startY, endX, endY)
    IN  /\ map' = r.map
        /\ last' = [op |-> "move", args |-> <<startX, startY, endX, endY>>, err |-> r.err]
        /\ Frame

\* Math.floor(Math.random() * n) is any integer of 0..n-1.
PlaceRandom(char) ==
    \E x \in 0..(drawableWidth - 1), y \in 0..(drawableHeight - 1) :
        LET r == place(map, drawableWidth, drawableHeight, Integer(x), Integer(y), char)
        IN  /\ map' = r.map
            /\ last' = [op |-> "placeRandom", args |-> <<char>>, err |-> r.err]
            /\ Frame

Clear ==
    /\ map' = clear(map, width, height)
    /\ last' = [op |-> "clear", args |-> <<>>, err |-> NoError]
    /\ Frame

PlaceMultiple(placements) ==
    LET r == placeMultiple(map, drawableWidth, drawableHeight, placements)
    IN  /\ map' = r.map
        /\ last' = [op |-> "placeMultiple", args |-> <<placements>>, err |-> r.err]
        /\ Frame

Next ==
    \/ \E xy \in CoordInputs, char \in CharInputs : Place(xy[1], xy[2], char)
    \/ \E xy \in CoordInputs : Delete(xy[1], xy[2])
    \/ \E s \in CoordInputs, e \in CoordInputs : Move(s[1], s[2], e[1], e[2])
    \/ \E char \in CharInputs : PlaceRandom(char)
    \/ Clear
    \/ \E placements \in SeqsUpTo(PlacementInputs, MaxPlacements) :
            PlaceMultiple(placements)

Spec == Init /\ [][Next]_vars

(***************************************************************************)
(* File operations                                                         *)
(***************************************************************************)
WriteToFile(fsError) ==
    LET r == writeToFile(map, disk, fsError)
    IN  /\ disk' = r.disk
        /\ last' = [op |-> "writeToFile", args |-> <<>>, err |-> r.err]
        /\ UNCHANGED <<drawableWidth, drawableHeight, width, height, map, ctor, returned>>

ReadFromFile(fsError) ==
    LET r == readFromFile(disk, fsError)
    IN  /\ returned' = r.inst
        /\ last' = [op |-> "readFromFile", args |-> <<>>, err |-> r.err]
        /\ UNCHANGED <<drawableWidth, drawableHeight, width, height, map, ctor, disk>>

\* Every grid of the given instance's size: place reaches each interior from
\* the constructed one, cell by cell.
GridsOf(inst) ==
    LET interior == {<<row, col>> : row \in 1..inst.drawableHeight,
                                   col \in 1..inst.drawableWidth}
    IN  {[row \in DOMAIN inst.map |->
            [col \in DOMAIN inst.map[row] |->
                IF <<row, col>> \in interior THEN f[<<row, col>>]
                ELSE inst.map[row][col]]] : f \in [interior -> CellChars]}

\* Lines a file is made of.
LineInputs ==
    {<<"-", "-", "-">>, <<"|", " ", "|">>, <<"|", "X", "|">>,
     <<"-", "-">>, <<"X", " ", "|">>, <<"|", "X", " ">>,
     <<"-", "-", "-", "-">>, <<>>}

\* How the lines are put together: the line break, and white space around.
Framings ==
    {[sep |-> <<"\n">>, lead |-> <<>>, trail |-> <<>>],
     [sep |-> <<"\r", "\n">>, lead |-> <<>>, trail |-> <<"\r", "\n">>],
     [sep |-> <<"\n">>, lead |-> <<" ">>, trail |-> <<"\n", "\n">>]}

FileInputs ==
    {fr.lead \o join(ls, fr.sep) \o fr.trail :
        ls \in SeqsUpTo(LineInputs, MaxFileLines) \ {<<>>},
        fr \in Framings}

\* A grid some calls have filled (last keeps the construction only) and no
\* file yet, or a constructed grid and a file of any content.
InitFile ==
    \/ \E d \in CtorInputs :
          LET made == constructor(d[1], d[2])
          IN  /\ made.err = NoError
              /\ \E m \in GridsOf(made.inst[1]) : Holds([made.inst[1] EXCEPT !.map = m])
              /\ disk = NoFile
              /\ returned = <<>>
              /\ last = [op |-> "constructor", args |-> d, err |-> NoError]
    \/ \E data \in FileInputs :
          /\ Holds(constructor(Integer(1), Integer(1)).inst[1])
          /\ disk = [exists |-> TRUE, data |-> data]
          /\ returned = <<>>
          /\ last = [op |-> "constructor", args |-> <<Integer(1), Integer(1)>>,
                      err |-> NoError]

NextFile ==
    \/ \E fsError \in {NoError, Error(EACCES)} : WriteToFile(fsError)
    \/ \E fsError \in {NoError, Error(EACCES)} : ReadFromFile(fsError)

SpecFile == InitFile /\ [][NextFile]_vars

(***************************************************************************)
(* The scenario on a grid of drawable size 3 x 2                           *)
(***************************************************************************)
\* The coordinates the scenario's calls use, and one outside the grid.
ScenarioCoords ==
    {<<Integer(1), Integer(1)>>, <<Integer(2), Integer(0)>>,
     <<Integer(0), Integer(1)>>, <<Integer(3), Integer(0)>>}

\* const map = new AsciiMap(3, 2)
InitScenario ==
    LET made == constructor(Integer(3), Integer(2))
    IN  /\ Holds(made.inst[1])
        /\ disk = NoFile
        /\ returned = <<>>
        /\ last = [op |-> "constructor", args |-> <<Integer(3), Integer(2)>>,
                    err |-> NoError]

NextScenario ==
    \/ \E xy \in ScenarioCoords, char \in CharInputs : Place(xy[1], xy[2], char)
    \/ \E xy \in ScenarioCoords : Delete(xy[1], xy[2])
    \/ \E s \in ScenarioCoords, e \in ScenarioCoords : Move(s[1], s[2], e[1], e[2])
    \/ Clear

SpecScenario == InitScenario /\ [][NextScenario]_vars

(***************************************************************************)
(* Properties                                                              *)
(***************************************************************************)
\* x and y are integers of the drawable area.
InRange(x, y) ==
    /\ x.isInteger /\ y.isInteger
    /\ x.floor \in 0..(drawableWidth - 1)
    /\ y.floor \in 0..(drawableHeight - 1)

\* char is a string of exactly one unit.
IsSingleChar(char) == char.type = "string" /\ Len(char.units) = 1

\* The cell drawable coordinate (x, y) stands for.
Cell(m, x, y) == m[y.floor + 1][x.floor + 1]

\* m1 and m2 agree everywhere but at the drawable coordinates in coords.
SameExcept(m1, m2, coords) ==
    /\ DOMAIN m1 = DOMAIN m2
    /\ \A row \in DOMAIN m2 :
        /\ DOMAIN m1[row] = DOMAIN m2[row]
        /\ \A col \in DOMAIN m2[row] :
            (\A c \in coords : ~(c[1].floor + 1 = col /\ c[2].floor + 1 = row))
                => m1[row][col] = m2[row][col]

SomeInteriorCell(m, unit) ==
    \E row \in 1..(height - 2), col \in 1..(width - 2) : m[row][col] = unit

\* C1: a grid written with writeToFile and read back with readFromFile is
\* read successfully, and the grid read renders as the grid written does.
C1_RoundTrip ==
    (/\ last.op = "readFromFile"
     /\ disk.exists
     /\ disk.data = toString(map)
     /\ last.err.msg \notin FsErrors)
        => /\ last.err = NoError
           /\ Len(returned) = 1
           /\ toString(returned[1].map) = toString(map)

\* C2: in every state the top and bottom rows are all '-', the first and last
\* cells of every interior row are '|', and the four dimensions are the ones
\* the instance was constructed with, width and height being the drawable
\* ones plus 2.
C2_BorderAndDimensions ==
    /\ DOMAIN map = 0..(height - 1)
    /\ \A row \in 0..(height - 1) : DOMAIN map[row] = 0..(width - 1)
    /\ \A col \in 0..(width - 1) : map[0][col] = "-" /\ map[height - 1][col] = "-"
    /\ \A row \in 1..(height - 2) : map[row][0] = "|" /\ map[row][width - 1] = "|"
    /\ drawableWidth = ctor.drawableWidth
    /\ drawableHeight = ctor.drawableHeight
    /\ width = ctor.width
    /\ height = ctor.height
    /\ width = drawableWidth + 2
    /\ height = drawableHeight + 2

\* A call rejected for its coordinates on a 2 x 2 grid whose four cells have
\* all been filled.
C2_Witness ==
    /\ last.err = Error(ErrCoords)
    /\ drawableWidth = 2 /\ drawableHeight = 2
    /\ \A row \in 1..2, col \in 1..2 : map[row][col] # " "
    /\ map[0][0] = "-" /\ map[1][0] = "|"

C4_Move ==
    [][(/\ last'.op = "move"
        /\ InRange(last'.args[1], last'.args[2])
        /\ InRange(last'.args[3], last'.args[4])
        /\ <<last'.args[1], last'.args[2]>> # <<last'.args[3], last'.args[4]>>)
            => IF Cell(map, last'.args[1], last'.args[2]) # " "
               THEN /\ last'.err = NoError
                    /\ Cell(map', last'.args[1], last'.args[2]) = " "
                    /\ Cell(map', last'.args[3], last'.args[4])
                         = Cell(map, last'.args[1], last'.args[2])
                    /\ SameExcept(map', map, {<<last'.args[1], last'.args[2]>>,
                                              <<last'.args[3], last'.args[4]>>})
               ELSE /\ last'.err = Error(ErrNoChar)
                    /\ map' = map]_vars

\* A successful move between two different cells.
C4_Witness ==
    /\ last.op = "move"
    /\ last.err = NoError
    /\ <<last.args[1], last.args[2]>> # <<last.args[3], last.args[4]>>
    /\ Cell(map, last.args[3], last.args[4]) = "\n"
    /\ Cell(map, last.args[1], last.args[2]) = " "

\* C5: placeMultiple places its triples in order up to the first one place
\* rejects: it fails with that triple's error, the triples before it stay
\* placed (the later of two at one coordinate showing) and none after it is
\* placed; when place rejects none, all are placed and the call succeeds.
C5_PlaceMultiple ==
    [][last'.op = "placeMultiple" =>
        \A ps \in {last'.args[1]} :
        \A rejected \in {{i \in 1..Len(ps) :
                            ~IsSingleChar(ps[i].char) \/ ~InRange(ps[i].x, ps[i].y)}} :
        \A k \in {IF rejected = {} THEN Len(ps) + 1
                  ELSE CHOOSE i \in rejected : \A j \in rejected : i <= j} :
            /\ last'.err = IF rejected = {} THEN NoError
                           ELSE IF ~IsSingleChar(ps[k].char) THEN Error(ErrChar)
                           ELSE Error(ErrCoords)
            /\ DOMAIN map' = DOMAIN map
            /\ \A row \in DOMAIN map :
                /\ DOMAIN map'[row] = DOMAIN map[row]
                /\ \A col \in DOMAIN map[row] :
                    \A hits \in {{i \in 1..(k - 1) :
                                    ps[i].y.floor + 1 = row /\ ps[i].x.floor + 1 = col}} :
                        map'[row][col] =
                            IF hits = {} THEN map[row][col]
                            ELSE ps[CHOOSE i \in hits : \A j \in hits : j <= i]
                                    .char.units[1]]_vars

\* A placeMultiple whose first triple is placed and whose second is rejected.
C5_Witness ==
    /\ last.op = "placeMultiple"
    /\ last.err = Error(ErrChar)
    /\ Len(last.args[1]) = 2
    /\ IsSingleChar(last.args[1][1].char)
    /\ InRange(last.args[1][1].x, last.args[1][1].y)
    /\ Cell(map, last.args[1][1].x, last.args[1][1].y) = "\n"

\* C6: readFromFile reports the first of these its input violates: (1) at
\* least 3 lines, (2) a first line of width at least 3, (3) every line of that
\* width, (4) first and last lines all '-', (5) every interior line starting
\* and ending with '|'; it then returns no grid.  An input violating none
\* yields a grid of drawable size (width-2) x (height-2) whose interior is the
\* file's.  The lines are those of the trimmed text.
C6_ValidationOrder ==
    (/\ last.op = "readFromFile"
     /\ disk.exists
     /\ last.err.msg \notin FsErrors)
        => LET lines == split(trim(disk.data))
               h == Len(lines)
               w == Len(lines[1])
               violates(n) ==
                   CASE n = 1 -> h < 3
                     [] n = 2 -> w < 3
                     [] n = 3 -> \E i \in 1..h : Len(lines[i]) # w
                     [] n = 4 -> \E i \in {1, h} :
                                    \E j \in 1..Len(lines[i]) : lines[i][j] # "-"
                     [] n = 5 -> \E i \in 2..(h - 1) :
                                    \/ Len(lines[i]) = 0
                                    \/ lines[i][1] # "|"
                                    \/ lines[i][Len(lines[i])] # "|"
               violated == {n \in 1..5 : violates(n)}
               first == CHOOSE n \in violated : \A o \in violated : n <= o
               message == <<ErrFewLines, ErrNarrow, ErrLength, ErrTopBottom, ErrSides>>
           IN  IF violated # {}
               THEN /\ last.err.msg = message[first]
                    /\ returned = <<>>
               ELSE /\ last.err = NoError
                    /\ Len(returned) = 1
                    /\ returned[1].drawableWidth = w - 2
                    /\ returned[1].drawableHeight = h - 2
                    /\ \A x \in 0..(w - 3), y \in 0..(h - 3) :
                        returned[1].map[y + 1][x + 1] = lines[y + 2][x + 2]

\* A file of lines of unequal length whose last line is not all '-' either:
\* the length is what is reported.
C6_Witness ==
    /\ last.op = "readFromFile"
    /\ last.err.msg = ErrLength
    /\ LET lines == split(trim(disk.data))
       IN  /\ Len(lines) >= 3
           /\ Len(lines[1]) = 3
           /\ lines[Len(lines)] = <<"X", " ", "|">>

\* The scenario's calls.
ScenarioPlace == <<Integer(1), Integer(1), Str(<<"X">>)>>
ScenarioMove == <<Integer(1), Integer(1), Integer(2), Integer(0)>>

\* The state after the scenario's place: that call succeeded on a grid that
\* is the constructed one but for one cell.
AfterScenarioPlace ==
    /\ last.op = "place"
    /\ last.args = ScenarioPlace
    /\ last.err = NoError
    /\ \E x \in 0..(drawableWidth - 1), y \in 0..(drawableHeight - 1) :
            SameExcept(map, newMap(width, height), {<<Integer(x), Integer(y)>>})

\* C7 as the spec states it: the 3 x 2 grid renders as "-----", "|   |",
\* "|   |", "-----"; after place(1,1,'X') row 2 is "|X  |"; after the
\* following move(1,1,2,0) row 1 is "| X |".
C7_ScenarioAsStated ==
    [][/\ last.op = "constructor" =>
            toString(map) = <<"-", "-", "-", "-", "-", "\n",
                              "|", " ", " ", " ", "|", "\n",
                              "|", " ", " ", " ", "|", "\n",
                              "-", "-", "-", "-", "-">>
       /\ (last.op = "constructor" /\ last'.op = "place" /\ last'.args = ScenarioPlace)
            => rowString(map'[2]) = <<"|", "X", " ", " ", "|">>
       /\ (AfterScenarioPlace /\ last'.op = "move" /\ last'.args = ScenarioMove)
            => rowString(map'[1]) = <<"|", " ", "X", " ", "|">>]_vars

\* C7, amended: the 3 x 2 grid renders as "-----", "|   |", "|   |", "-----";
\* after place(1,1,'X') row 2 is "| X |"; after the following move(1,1,2,0),
\* which succeeds, row 1 is "|  X|" and row 2 is "|   |" again.
C7_Scenario ==
    [][/\ last.op = "constructor" =>
            toString(map) = <<"-", "-", "-", "-", "-", "\n",
                              "|", " ", " ", " ", "|", "\n",
                              "|", " ", " ", " ", "|", "\n",
                              "-", "-", "-", "-", "-">>
       /\ (last.op = "constructor" /\ last'.op = "place" /\ last'.args = ScenarioPlace)
            => rowString(map'[2]) = <<"|", " ", "X", " ", "|">>
       /\ (AfterScenarioPlace /\ last'.op = "move" /\ last'.args = ScenarioMove)
            => /\ last'.err = NoError
               /\ rowString(map'[1]) = <<"|", " ", " ", "X", "|">>
               /\ rowString(map'[2]) = <<"|", " ", " ", " ", "|">>]_vars

\* The scenario's end: move(1,1,2,0) has carried the 'X' to the end of row 1.
C7_Witness ==
    /\ last.op = "move"
    /\ last.args = ScenarioMove
    /\ last.err = NoError
    /\ toString(map) = <<"-", "-", "-", "-", "-", "\n",
                         "|", " ", " ", "X", "|", "\n",
                         "|", " ", " ", " ", "|", "\n",
                         "-", "-", "-", "-", "-">>

\* C8: when the file system call fails, writeToFile and readFromFile fail
\* with an error that wraps the file system's: the caller never gets it raw.
C8_FileErrorsWrapped ==
    (last.op \in {"writeToFile", "readFromFile"} /\ last.err.msg \in FsErrors)
        => last.err.prefix # ""

\* C9: move(x, y, x, y) on an in-range cell holding a character succeeds and
\* changes no cell.
C9_MoveInPlace ==
    [][(/\ last'.op = "move"
        /\ InRange(last'.args[1], last'.args[2])
        /\ <<last'.args[3], last'.args[4]>> = <<last'.args[1], last'.args[2]>>
        /\ Cell(map, last'.args[1], last'.args[2]) # " ")
            => /\ last'.err = NoError
               /\ map' = map]_vars

\* A successful move of a cell onto itself.
C9_Witness ==
    /\ last.op = "move"
    /\ last.err = NoError
    /\ <<last.args[3], last.args[4]>> = <<last.args[1], last.args[2]>>
    /\ Cell(map, last.args[1], last.args[2]) = "X"

\* C10: a place or delete with a coordinate that is not an integer in range,
\* a place whose char is not one character, and a move with an invalid start
\* or end fail and change no cell; move reports the start when the start is
\* invalid, else the end, whatever the start cell holds.
C10_FailingCalls ==
    [][/\ (last'.op \in {"place", "delete"} /\ ~InRange(last'.args[1], last'.args[2]))
            => last'.err # NoError /\ map' = map
       /\ (last'.op = "place" /\ ~IsSingleChar(last'.args[3]))
            => last'.err # NoError /\ map' = map
       /\ (last'.op = "move" /\ ~InRange(last'.args[1], last'.args[2]))
            => last'.err = Error(ErrStart) /\ map' = map
       /\ (/\ last'.op = "move"
           /\ InRange(last'.args[1], last'.args[2])
           /\ ~InRange(last'.args[3], last'.args[4]))
            => last'.err = Error(ErrEnd) /\ map' = map]_vars

\* A move with both pairs invalid, reported as the start's, on a grid that
\* holds a character.
C10_Witness ==
    /\ last.op = "move"
    /\ ~InRange(last.args[1], last.args[2])
    /\ ~InRange(last.args[3], last.args[4])
    /\ last.err = Error(ErrStart)
    /\ SomeInteriorCell(map, "X")

====
